---- MODULE Spec2Model ----
(***************************************************************************)
(* A model of WWTPSim (wwtpsim.cpp): the water sample, the transfer        *)
(* function of every component class, and the main loop's simulation step  *)
(* and topology handlers, and the parameter histories.                     *)
(*                                                                         *)
(* Numbers.  The program's float values are kept as integers counting      *)
(* tenths of the parameter's unit (BOD = 300.0f is 3000, pH = 6.5f is 65,  *)
(* HRT = 10 h is 100).  A float factor such as 0.70f is kept as an integer *)
(* count of 1/100000 (70000), and a product is rounded to the nearest      *)
(* tenth, as a float product is rounded to the nearest float.              *)
(***************************************************************************)
EXTENDS Integers, Sequences, FiniteSets, TLC

VARIABLES
    components,        \* std::vector<Component*> components: a sequence of addresses
    heap,              \* the live Component objects, by address
    connections,       \* std::vector<Connection*> connections: <<from, to>> pairs
    isSimulating,      \* bool isSimulating
    newComponentType,  \* std::string newComponentType
    nOps,              \* how many interface events have changed the plant so far
    parameterHistories,\* std::map<WaterParameter, ParameterHistory> parameterHistories
    nTicks,            \* how many simulation steps have run so far
    limit,             \* the run's budget: [ops, ticks], fixed at the start
    last               \* the last handler that changed the chain, and the names
                       \* of the chain before it

vars == <<components, heap, connections, isSimulating, newComponentType, nOps,
          parameterHistories, nTicks, limit, last>>

(***************************************************************************)
(* enum WaterParameter                                                     *)
(***************************************************************************)
WaterParameter ==
    {"BOD", "COD", "TSS", "NH4", "NO3", "PH", "P", "OIL", "DO", "TEMP",
     "PATHOGENS", "SALINITY", "TURBIDITY", "EC", "ALKALINITY",
     "RESIDUAL_CHLORINE", "HARDNESS", "SULFATES", "CHLORIDES", "METALS"}

(* Water::Water(): the default raw-influent sample, in tenths. *)
Water ==
    [p \in WaterParameter |->
        CASE p = "BOD" -> 3000
          [] p = "COD" -> 6000
          [] p = "TSS" -> 2000
          [] p = "NH4" -> 500
          [] p = "NO3" -> 50
          [] p = "PH" -> 65
          [] p = "P" -> 100
          [] p = "OIL" -> 300
          [] p = "DO" -> 20
          [] p = "TEMP" -> 200
          [] p = "PATHOGENS" -> 10000000
          [] p = "SALINITY" -> 5
          [] p = "TURBIDITY" -> 500
          [] p = "EC" -> 15000
          [] p = "ALKALINITY" -> 2000
          [] p = "RESIDUAL_CHLORINE" -> 0
          [] p = "HARDNESS" -> 2500
          [] p = "SULFATES" -> 800
          [] p = "CHLORIDES" -> 1000
          [] p = "METALS" -> 50]

(* Water::updateParameter *)
updateParameter(w, param, value) == [w EXCEPT ![param] = value]

(* Water::getParameter *)
getParameter(w, param) == w[param]

(***************************************************************************)
(* Float arithmetic on the fixed-point representation.                     *)
(***************************************************************************)
Abs(x) == IF x < 0 THEN -x ELSE x

Sign(x) == IF x < 0 THEN -1 ELSE 1

(* |v| * n / 100000 rounded to nearest, for v, n >= 0, computed in pieces  *)
(* that stay inside 32 bits.                                               *)
MulPos(v, n) ==
    LET vh == v \div 100000
        vl == v % 100000
        a == vl \div 100
        b == vl % 100
    IN  vh * n + ((a * n + 500 + ((b * n) \div 100)) \div 1000)

(* The float product v * f, f given in 1/100000: operator* on floats. *)
Mul(v, n) == Sign(v) * Sign(n) * MulPos(Abs(v), Abs(n))

(* std::pow(1.035f, d) for a whole number of degrees d, in 1/100000. *)
RECURSIVE PowInt(_)
PowInt(d) ==
    IF d = 0 THEN 100000
    ELSE IF d > 0 THEN (PowInt(d - 1) * 1035 + 500) \div 1000
    ELSE (PowInt(d + 1) * 1000 + 517) \div 1035

(* std::pow(1.035f, temp - 20.0f), temp in tenths of a degree. *)
Pow1035(temp) == PowInt((temp - 200) \div 10)

(* The series 1 + x + x^2/2! + ... for x >= 0 in 1/1000, result in 1/1000. *)
RECURSIVE ExpSeries(_, _, _)
ExpSeries(x, n, term) ==
    IF term = 0 THEN 0
    ELSE term + ExpSeries(x, n + 1, (term * x) \div (1000 * n))

(* std::exp(-x) for x in 1/1000, result in 1/100000.  Beyond |x| = 4 the   *)
(* argument is halved and the two results multiplied, which keeps the      *)
(* series inside 32 bits.                                                  *)
RECURSIVE ExpNeg(_)
ExpNeg(x) ==
    IF x > 4000 \/ x < -4000
    THEN Mul(ExpNeg(x \div 2), ExpNeg(x - (x \div 2)))
    ELSE IF x >= 0 THEN 100000000 \div ExpSeries(x, 1, 1000)
    ELSE ExpSeries(-x, 1, 1000) * 100

(* A slip of the kinetic fraction: std::exp(-k * HRT * tempFactor) without *)
(* the 1 - in front.                                                       *)
KineticFractionWithoutComplement(k, HRT, tempFactor) ==
    ExpNeg(Mul(k * HRT, tempFactor) \div 10)

(* 1 - std::exp(-k * HRT * tempFactor): k in 1/1000, HRT in tenths of an   *)
(* hour, tempFactor in 1/100000; result in 1/100000.                       *)
KineticFraction(k, HRT, tempFactor) ==
    100000 - ExpNeg(Mul(k * HRT, tempFactor) \div 10)

(***************************************************************************)
(* The transfer functions: <Class>_simulate(c) is the outletWater that     *)
(* <Class>::simulate leaves in component c, computed from c.inletWater and *)
(* c.HRT.  deltaTime is read by none of them.                              *)
(***************************************************************************)

(* Component::simulate, inherited by Inlet and Outlet *)
Component_simulate(c) == c.inletWater

PrimaryClarifier_simulate(c) ==
    LET in == c.inletWater
        removalEfficiencyTSS == 70000
        removalEfficiencyOIL == 90000
        o1 == updateParameter(in, "TSS", Mul(getParameter(in, "TSS"), 100000 - removalEfficiencyTSS))
        o2 == updateParameter(o1, "OIL", Mul(getParameter(in, "OIL"), 100000 - removalEfficiencyOIL))
    IN  updateParameter(o2, "TURBIDITY", Mul(getParameter(in, "TURBIDITY"), 80000))

ElectrocoagulationUnit_simulate(c) ==
    LET in == c.inletWater
        removalEfficiencyMETALS == 80000
        removalEfficiencyTSS == 60000
        pH_adjustment == 5
        EC_adjustment == 2000
        o1 == updateParameter(in, "METALS", Mul(getParameter(in, "METALS"), 100000 - removalEfficiencyMETALS))
        o2 == updateParameter(o1, "TSS", Mul(getParameter(in, "TSS"), 100000 - removalEfficiencyTSS))
        o3 == updateParameter(o2, "PH", getParameter(in, "PH") + pH_adjustment)
    IN  updateParameter(o3, "EC", getParameter(in, "EC") + EC_adjustment)

(* A slip of Filtration: (1 + efficiency) for the turbidity. *)
Filtration_simulateAdding(c) ==
    LET in == c.inletWater
        removalEfficiencyTSS == 80000
        removalEfficiencyTURB == 70000
        o1 == updateParameter(in, "TSS", Mul(getParameter(in, "TSS"), 100000 - removalEfficiencyTSS))
    IN  updateParameter(o1, "TURBIDITY", Mul(getParameter(in, "TURBIDITY"), 100000 + removalEfficiencyTURB))

Filtration_simulate(c) ==
    LET in == c.inletWater
        removalEfficiencyTSS == 80000
        removalEfficiencyTURB == 70000
        o1 == updateParameter(in, "TSS", Mul(getParameter(in, "TSS"), 100000 - removalEfficiencyTSS))
    IN  updateParameter(o1, "TURBIDITY", Mul(getParameter(in, "TURBIDITY"), 100000 - removalEfficiencyTURB))

(* The body shared by AnaerobicAerobicFilter, MBR and Biofilter, which     *)
(* differ in their rate constants only.                                    *)
BodCodNh4Kinetics(c, k_bod, k_cod, k_nh4) ==
    LET in == c.inletWater
        tempFactor == Pow1035(getParameter(in, "TEMP"))
        BOD_in == getParameter(in, "BOD")
        COD_in == getParameter(in, "COD")
        NH4_in == getParameter(in, "NH4")
        BOD_removal == Mul(BOD_in, KineticFraction(k_bod, c.HRT, tempFactor))
        COD_removal == Mul(COD_in, KineticFraction(k_cod, c.HRT, tempFactor))
        NH4_removal == Mul(NH4_in, KineticFraction(k_nh4, c.HRT, tempFactor))
        o1 == updateParameter(in, "BOD", BOD_in - BOD_removal)
        o2 == updateParameter(o1, "COD", COD_in - COD_removal)
        o3 == updateParameter(o2, "NH4", NH4_in - NH4_removal)
        o4 == updateParameter(o3, "NO3", getParameter(in, "NO3") + Mul(NH4_removal, 90000))
        DO_consumed == Mul(BOD_removal + COD_removal + Mul(NH4_removal, 457000), 150000)
        o5 == updateParameter(o4, "DO", getParameter(in, "DO") - DO_consumed)
    IN  IF getParameter(o5, "DO") < 0 THEN updateParameter(o5, "DO", 0) ELSE o5

AnaerobicAerobicFilter_simulate(c) == BodCodNh4Kinetics(c, 200, 100, 50)

OzoneDisinfection_simulate(c) ==
    LET in == c.inletWater
        pathogen_removal == Mul(getParameter(in, "PATHOGENS"), 99900)
        oxidationEfficiency == 90000
        o1 == updateParameter(in, "PATHOGENS", getParameter(in, "PATHOGENS") - pathogen_removal)
        o2 == updateParameter(o1, "COD", Mul(getParameter(in, "COD"), 100000 - oxidationEfficiency))
    IN  updateParameter(o2, "TSS", Mul(getParameter(in, "TSS"), 100000 - oxidationEfficiency))

MBR_simulate(c) == BodCodNh4Kinetics(c, 100, 50, 30)

Biofilter_simulate(c) == BodCodNh4Kinetics(c, 200, 100, 50)

PrimarySedimentationTank_simulate(c) ==
    LET in == c.inletWater
        removalEfficiencyTSS == 60000
        removalEfficiencyBOD == 35000
        removalEfficiencyPathogen == 60000
        o1 == updateParameter(in, "TSS", Mul(getParameter(in, "TSS"), 100000 - removalEfficiencyTSS))
        o2 == updateParameter(o1, "BOD", Mul(getParameter(in, "BOD"), 100000 - removalEfficiencyBOD))
        o3 == updateParameter(o2, "TURBIDITY", Mul(getParameter(in, "TURBIDITY"), 50000))
    IN  updateParameter(o3, "PATHOGENS", Mul(getParameter(in, "PATHOGENS"), 100000 - removalEfficiencyPathogen))

(* The body shared by AerationTank and ActiveSludgeProcess up to the DO    *)
(* clamp.                                                                  *)
BodNh4Kinetics(c) ==
    LET in == c.inletWater
        k_bod == 200
        k_nh4 == 100
        tempFactor == Pow1035(getParameter(in, "TEMP"))
        BOD_in == getParameter(in, "BOD")
        NH4_in == getParameter(in, "NH4")
        BOD_removal == Mul(BOD_in, KineticFraction(k_bod, c.HRT, tempFactor))
        NH4_removal == Mul(NH4_in, KineticFraction(k_nh4, c.HRT, tempFactor))
        o1 == updateParameter(in, "BOD", BOD_in - BOD_removal)
        o2 == updateParameter(o1, "NH4", NH4_in - NH4_removal)
        o3 == updateParameter(o2, "NO3", getParameter(in, "NO3") + Mul(NH4_removal, 90000))
        DO_consumed == Mul(BOD_removal + Mul(NH4_removal, 457000), 150000)
        o4 == updateParameter(o3, "DO", getParameter(in, "DO") - DO_consumed)
    IN  IF getParameter(o4, "DO") < 0 THEN updateParameter(o4, "DO", 0) ELSE o4

(* A slip of AerationTank: outletWater = inletWater left out, so that the  *)
(* parameters the unit does not write keep the previous outlet's values.   *)
AerationTank_simulateOnOutlet(c) ==
    [p \in WaterParameter |->
        IF p \in {"BOD", "NH4", "NO3", "DO"} THEN BodNh4Kinetics(c)[p]
        ELSE c.outletWater[p]]

AerationTank_simulate(c) == BodNh4Kinetics(c)

SecondaryClarifier_simulate(c) ==
    LET in == c.inletWater
        TSS_removal == Mul(getParameter(in, "TSS"), 85000)
        o1 == updateParameter(in, "TSS", getParameter(in, "TSS") - TSS_removal)
    IN  updateParameter(o1, "TURBIDITY", Mul(getParameter(in, "TURBIDITY"), 70000))

(* A slip of ChlorineDisinfectionUnit: the residual chlorine added to the  *)
(* inlet's instead of set.                                                 *)
ChlorineDisinfectionUnit_simulateAdding(c) ==
    LET in == c.inletWater
        pathogen_removal == Mul(getParameter(in, "PATHOGENS"), 99999)
        o1 == updateParameter(in, "PATHOGENS", getParameter(in, "PATHOGENS") - pathogen_removal)
        o2 == updateParameter(o1, "RESIDUAL_CHLORINE", getParameter(in, "RESIDUAL_CHLORINE") + 7)
    IN  updateParameter(o2, "CHLORIDES", Mul(getParameter(in, "CHLORIDES"), 146000))

ChlorineDisinfectionUnit_simulate(c) ==
    LET in == c.inletWater
        pathogen_removal == Mul(getParameter(in, "PATHOGENS"), 99999)
        o1 == updateParameter(in, "PATHOGENS", getParameter(in, "PATHOGENS") - pathogen_removal)
        o2 == updateParameter(o1, "RESIDUAL_CHLORINE", 7)
    IN  updateParameter(o2, "CHLORIDES", Mul(getParameter(in, "CHLORIDES"), 146000))

(* A slip of NitrificationTank: the nitrate generated without the yield    *)
(* 0.9f.                                                                   *)
NitrificationTank_simulateFullYield(c) ==
    LET in == c.inletWater
        k_nh4 == 100
        tempFactor == Pow1035(getParameter(in, "TEMP"))
        alkalinityremoval == 5
        NH4_in == getParameter(in, "NH4")
        NO3_in == getParameter(in, "NO3")
        NH4_removal == Mul(NH4_in, KineticFraction(k_nh4, c.HRT, tempFactor))
        NO3_generated == NH4_removal
        o1 == updateParameter(in, "NH4", NH4_in - NH4_removal)
        o2 == updateParameter(o1, "NO3", NO3_in + NO3_generated)
    IN  updateParameter(o2, "ALKALINITY", getParameter(in, "ALKALINITY") - alkalinityremoval)

NitrificationTank_simulate(c) ==
    LET in == c.inletWater
        k_nh4 == 100
        tempFactor == Pow1035(getParameter(in, "TEMP"))
        alkalinityremoval == 5
        NH4_in == getParameter(in, "NH4")
        NO3_in == getParameter(in, "NO3")
        NH4_removal == Mul(NH4_in, KineticFraction(k_nh4, c.HRT, tempFactor))
        NO3_generated == Mul(NH4_removal, 90000)
        o1 == updateParameter(in, "NH4", NH4_in - NH4_removal)
        o2 == updateParameter(o1, "NO3", NO3_in + NO3_generated)
    IN  updateParameter(o2, "ALKALINITY", getParameter(in, "ALKALINITY") - alkalinityremoval)

UVDisinfection_simulate(c) ==
    LET in == c.inletWater
        pathogen_removal == Mul(getParameter(in, "PATHOGENS"), 99900)
    IN  updateParameter(in, "PATHOGENS", getParameter(in, "PATHOGENS") - pathogen_removal)

AnaerobicFilter_simulate(c) ==
    LET in == c.inletWater
        COD_in == getParameter(in, "COD")
        COD_removal == Mul(COD_in, 65000)
    IN  updateParameter(in, "COD", COD_in - COD_removal)

CoagulationFlocculation_simulate(c) ==
    LET in == c.inletWater
        COD_removal == Mul(getParameter(in, "COD"), 40000)
        TSS_removal == Mul(getParameter(in, "TSS"), 60000)
        o1 == updateParameter(in, "COD", getParameter(in, "COD") - COD_removal)
    IN  updateParameter(o1, "TSS", getParameter(in, "TSS") - TSS_removal)

MembraneFiltration_simulate(c) ==
    LET in == c.inletWater
        COD_removal == Mul(getParameter(in, "COD"), 20000)
        TSS_removal == Mul(getParameter(in, "TSS"), 45000)
        pathogen_removal == Mul(getParameter(in, "PATHOGENS"), 99990)
        o1 == updateParameter(in, "COD", getParameter(in, "COD") - COD_removal)
        o2 == updateParameter(o1, "TSS", getParameter(in, "TSS") - TSS_removal)
    IN  updateParameter(o2, "PATHOGENS", getParameter(in, "PATHOGENS") - pathogen_removal)

ChemicalOxidation_simulate(c) ==
    LET in == c.inletWater
        COD_removal == Mul(getParameter(in, "COD"), 70000)
        o1 == updateParameter(in, "COD", getParameter(in, "COD") - COD_removal)
    IN  updateParameter(o1, "TURBIDITY", Mul(getParameter(in, "TURBIDITY"), 80000))

ActiveSludgeProcess_simulate(c) ==
    LET in == c.inletWater
        o == BodNh4Kinetics(c)
        COD_removal == Mul(getParameter(in, "COD"), 79000)
    IN  updateParameter(o, "COD", getParameter(in, "COD") - COD_removal)

SludgeDigester_simulate(c) ==
    LET in == c.inletWater
        VSS_removal == Mul(getParameter(in, "TSS"), 55000)
    IN  updateParameter(in, "TSS", getParameter(in, "TSS") - VSS_removal)

OilSeparator_simulate(c) ==
    LET in == c.inletWater
        oil_removal == Mul(getParameter(in, "OIL"), 90000)
        o1 == updateParameter(in, "OIL", getParameter(in, "OIL") - oil_removal)
    IN  updateParameter(o1, "TURBIDITY", Mul(getParameter(in, "TURBIDITY"), 90000))

PhosphorusRemovalUnit_simulate(c) ==
    LET in == c.inletWater
        P_removal == Mul(getParameter(in, "P"), 75000)
        o1 == updateParameter(in, "P", getParameter(in, "P") - P_removal)
    IN  updateParameter(o1, "TSS", getParameter(in, "TSS") + P_removal * 2)

DryingBed_simulate(c) ==
    LET in == c.inletWater
        moisture_removal == Mul(getParameter(in, "TSS"), 95000)
    IN  updateParameter(in, "TSS", getParameter(in, "TSS") - moisture_removal)

Pump_simulate(c) == c.inletWater

FlowMeter_simulate(c) == c.inletWater

WaterSoftener_simulate(c) ==
    LET in == c.inletWater
        hardness_removal == Mul(getParameter(in, "HARDNESS"), 90000)
    IN  updateParameter(in, "HARDNESS", getParameter(in, "HARDNESS") - hardness_removal)

ActivatedCarbonFilter_simulate(c) ==
    LET in == c.inletWater
        COD_removal == Mul(getParameter(in, "COD"), 30000)
    IN  updateParameter(in, "COD", getParameter(in, "COD") - COD_removal)

HeatExchanger_simulate(c) == updateParameter(c.inletWater, "TEMP", 250)

MetalsRemovalUnit_simulate(c) ==
    LET in == c.inletWater
        metals_removal == Mul(getParameter(in, "METALS"), 85000)
    IN  updateParameter(in, "METALS", getParameter(in, "METALS") - metals_removal)

MembraneFiltrationUnit_simulate(c) ==
    LET in == c.inletWater
        pathogens_removal == Mul(getParameter(in, "PATHOGENS"), 99990)
        TSS_removal == Mul(getParameter(in, "TSS"), 99000)
        o1 == updateParameter(in, "PATHOGENS", getParameter(in, "PATHOGENS") - pathogens_removal)
    IN  updateParameter(o1, "TSS", getParameter(in, "TSS") - TSS_removal)

ReverseOsmosisUnit_simulate(c) ==
    LET in == c.inletWater
        salinity_removal == Mul(getParameter(in, "SALINITY"), 95000)
        o1 == updateParameter(in, "SALINITY", getParameter(in, "SALINITY") - salinity_removal)
    IN  updateParameter(o1, "EC", Mul(getParameter(in, "EC"), 5000))

(* The virtual call comp->simulate(deltaTime): dispatch on the class. *)
simulate(c) ==
    CASE c.cls = "Inlet" -> Component_simulate(c)
      [] c.cls = "Outlet" -> Component_simulate(c)
      [] c.cls = "PrimaryClarifier" -> PrimaryClarifier_simulate(c)
      [] c.cls = "ElectrocoagulationUnit" -> ElectrocoagulationUnit_simulate(c)
      [] c.cls = "Filtration" -> Filtration_simulate(c)
      [] c.cls = "AnaerobicAerobicFilter" -> AnaerobicAerobicFilter_simulate(c)
      [] c.cls = "OzoneDisinfection" -> OzoneDisinfection_simulate(c)
      [] c.cls = "MBR" -> MBR_simulate(c)
      [] c.cls = "Biofilter" -> Biofilter_simulate(c)
      [] c.cls = "PrimarySedimentationTank" -> PrimarySedimentationTank_simulate(c)
      [] c.cls = "AerationTank" -> AerationTank_simulate(c)
      [] c.cls = "SecondaryClarifier" -> SecondaryClarifier_simulate(c)
      [] c.cls = "ChlorineDisinfectionUnit" -> ChlorineDisinfectionUnit_simulate(c)
      [] c.cls = "NitrificationTank" -> NitrificationTank_simulate(c)
      [] c.cls = "UVDisinfection" -> UVDisinfection_simulate(c)
      [] c.cls = "AnaerobicFilter" -> AnaerobicFilter_simulate(c)
      [] c.cls = "CoagulationFlocculation" -> CoagulationFlocculation_simulate(c)
      [] c.cls = "MembraneFiltration" -> MembraneFiltration_simulate(c)
      [] c.cls = "ChemicalOxidation" -> ChemicalOxidation_simulate(c)
      [] c.cls = "ActiveSludgeProcess" -> ActiveSludgeProcess_simulate(c)
      [] c.cls = "SludgeDigester" -> SludgeDigester_simulate(c)
      [] c.cls = "OilSeparator" -> OilSeparator_simulate(c)
      [] c.cls = "PhosphorusRemovalUnit" -> PhosphorusRemovalUnit_simulate(c)
      [] c.cls = "DryingBed" -> DryingBed_simulate(c)
      [] c.cls = "Pump" -> Pump_simulate(c)
      [] c.cls = "FlowMeter" -> FlowMeter_simulate(c)
      [] c.cls = "WaterSoftener" -> WaterSoftener_simulate(c)
      [] c.cls = "ActivatedCarbonFilter" -> ActivatedCarbonFilter_simulate(c)
      [] c.cls = "HeatExchanger" -> HeatExchanger_simulate(c)
      [] c.cls = "MetalsRemovalUnit" -> MetalsRemovalUnit_simulate(c)
      [] c.cls = "MembraneFiltrationUnit" -> MembraneFiltrationUnit_simulate(c)
      [] c.cls = "ReverseOsmosisUnit" -> ReverseOsmosisUnit_simulate(c)

(***************************************************************************)
(* Bounds of the exploration.                                              *)
(***************************************************************************)
(* Add is tried while the chain is shorter than this. *)
MaxChain == 4

(* The simulation steps of a run of the plant. *)
MaxTicks == 3

(* The interface events that change the plant (Add, Remove, Reset, Load    *)
(* Default Example, an edit of a value) are tried this many times in a run.*)
MaxOps == 2

(* The values typed into the Source's input fields, and the fields typed   *)
(* into.                                                                   *)
InputValues == {0, 1000}

EditedParameters == {"BOD"}

(* The values typed into a unit's HRT field (tenths of an hour). *)
HRTValues == {0}

(* The entries of the Type combo that are selected. *)
SelectedTypes == {"Aeration Tank", "Biofilter"}

(* The Efficiency sliders that are moved, and the values they are moved    *)
(* to (the slider's range is -1.0 to 1.0).                                 *)
EfficiencyParameters == {"TSS"}

(* The positions of the chain whose panel is opened and edited. *)
PanelPositions == {2, 3}

EfficiencyValues == {50000}

(***************************************************************************)
(* Components.                                                             *)
(***************************************************************************)
(* Component::Component with the members' default initialisers: HRT = 10,  *)
(* temperature = 20.0f, inletWater and outletWater default-constructed,    *)
(* removalEfficiencies an empty map.                                       *)
NewComponent(cls, name) ==
    [cls |-> cls, name |-> name, HRT |-> 100, temperature |-> 200,
     inletWater |-> Water, outletWater |-> Water,
     removalEfficiencies |-> [p \in {} |-> 0]]

(* The addresses of main's two permanent components. *)
inlet == 1

outlet == 2

Inlet == NewComponent("Inlet", "Inlet")

Outlet == NewComponent("Outlet", "Outlet")

(* The component classes other than Inlet and Outlet, each with the name   *)
(* its constructor passes to Component.                                    *)
ComponentName ==
    [cls \in {"PrimaryClarifier", "ElectrocoagulationUnit", "Filtration",
              "AnaerobicAerobicFilter", "OzoneDisinfection", "MBR", "Biofilter",
              "PrimarySedimentationTank", "AerationTank", "SecondaryClarifier",
              "ChlorineDisinfectionUnit", "NitrificationTank", "UVDisinfection",
              "AnaerobicFilter", "CoagulationFlocculation", "MembraneFiltration",
              "ChemicalOxidation", "ActiveSludgeProcess", "SludgeDigester",
              "OilSeparator", "PhosphorusRemovalUnit", "DryingBed", "Pump",
              "FlowMeter", "WaterSoftener", "ActivatedCarbonFilter",
              "HeatExchanger", "MetalsRemovalUnit", "MembraneFiltrationUnit",
              "ReverseOsmosisUnit"} |->
        CASE cls = "PrimaryClarifier" -> "Primary Clarifier"
          [] cls = "ElectrocoagulationUnit" -> "Electrocoagulation Unit"
          [] cls = "Filtration" -> "Filtration"
          [] cls = "AnaerobicAerobicFilter" -> "Anaerobic-Aerobic Filter"
          [] cls = "OzoneDisinfection" -> "Ozone Disinfection"
          [] cls = "MBR" -> "MBR"
          [] cls = "Biofilter" -> "Realistic Biofilter"
          [] cls = "PrimarySedimentationTank" -> "Primary Sedimentation Tank"
          [] cls = "AerationTank" -> "Aeration Tank"
          [] cls = "SecondaryClarifier" -> "Secondary Clarifier"
          [] cls = "ChlorineDisinfectionUnit" -> "Chlorine Disinfection Unit"
          [] cls = "NitrificationTank" -> "Nitrification Tank"
          [] cls = "UVDisinfection" -> "UV Disinfection"
          [] cls = "AnaerobicFilter" -> "Anaerobic Filter"
          [] cls = "CoagulationFlocculation" -> "Coagulation and Flocculation"
          [] cls = "MembraneFiltration" -> "Membrane Filtration"
          [] cls = "ChemicalOxidation" -> "Chemical Oxidation"
          [] cls = "ActiveSludgeProcess" -> "Active Sludge Process"
          [] cls = "SludgeDigester" -> "Sludge Digester"
          [] cls = "OilSeparator" -> "Oil and Grease Separator"
          [] cls = "PhosphorusRemovalUnit" -> "Phosphorus Removal Unit"
          [] cls = "DryingBed" -> "Drying Bed"
          [] cls = "Pump" -> "Pump"
          [] cls = "FlowMeter" -> "Flow Meter"
          [] cls = "WaterSoftener" -> "Water Softener"
          [] cls = "ActivatedCarbonFilter" -> "Activated Carbon Filter"
          [] cls = "HeatExchanger" -> "Heat Exchanger"
          [] cls = "MetalsRemovalUnit" -> "Metals Removal Unit"
          [] cls = "MembraneFiltrationUnit" -> "Membrane Filtration Unit"
          [] cls = "ReverseOsmosisUnit" -> "Reverse Osmosis Unit"]

ComponentClasses == DOMAIN ComponentName

(* std::vector<std::string> componentTypes: the entries of the Type combo. *)
componentTypes ==
    <<"Primary Sedimentation Tank", "Primary Clarifier", "Aeration Tank",
      "Secondary Clarifier", "Chlorine Disinfection Unit", "UV Disinfection",
      "Anaerobic Filter", "Sludge Digester", "Oil and Grease Separator",
      "Phosphorus Removal Unit", "Drying Bed", "Pump", "Flow Meter",
      "Water Softener", "Activated Carbon Filter", "Heat Exchanger",
      "Metals Removal Unit", "Membrane Filtration Unit", "Reverse Osmosis Unit",
      "Coagulation and Flocculation", "Membrane Filtration", "Chemical Oxidation",
      "Active Sludge Process", "Nitrification Tank", "Biofilter", "Filtration",
      "Membrane Bioreactor", "Ozone Disinfection", "Anaerobic-Aerobic Treatment",
      "Electrocoagulation Unit">>

(* The if / else-if chain of the Add handler: the class constructed for a  *)
(* type string, "nullptr" when no branch matches.                          *)
AddDispatch(type) ==
    CASE type = "Primary Sedimentation Tank" -> "PrimarySedimentationTank"
      [] type = "Primary Clarifier" -> "PrimaryClarifier"
      [] type = "Aeration Tank" -> "AerationTank"
      [] type = "Secondary Clarifier" -> "SecondaryClarifier"
      [] type = "Chlorine Disinfection Unit" -> "ChlorineDisinfectionUnit"
      [] type = "UV Disinfection" -> "UVDisinfection"
      [] type = "Anaerobic Filter" -> "AnaerobicFilter"
      [] type = "Sludge Digester" -> "SludgeDigester"
      [] type = "Oil and Grease Separator" -> "OilSeparator"
      [] type = "Phosphorus Removal Unit" -> "PhosphorusRemovalUnit"
      [] type = "Drying Bed" -> "DryingBed"
      [] type = "Pump" -> "Pump"
      [] type = "Flow Meter" -> "FlowMeter"
      [] type = "Water Softener" -> "WaterSoftener"
      [] type = "Activated Carbon Filter" -> "ActivatedCarbonFilter"
      [] type = "Heat Exchanger" -> "HeatExchanger"
      [] type = "Metals Removal Unit" -> "MetalsRemovalUnit"
      [] type = "Membrane Filtration Unit" -> "MembraneFiltrationUnit"
      [] type = "Reverse Osmosis Unit" -> "ReverseOsmosisUnit"
      [] type = "Coagulation and Flocculation" -> "CoagulationFlocculation"
      [] type = "Membrane Filtration" -> "MembraneFiltration"
      [] type = "Chemical Oxidation" -> "ChemicalOxidation"
      [] type = "Active Sludge Process" -> "ActiveSludgeProcess"
      [] type = "Nitrification Unit" -> "NitrificationTank"
      [] type = "Biofilter Unit" -> "Biofilter"
      [] type = "Filtration" -> "Filtration"
      [] type = "Membrane Bioreactor" -> "MBR"
      [] type = "Ozonation Unit" -> "OzoneDisinfection"
      [] type = "Anaerobic-Aerobic Treatment" -> "AnaerobicAerobicFilter"
      [] type = "Electrocoagulation Unit" -> "ElectrocoagulationUnit"
      [] OTHER -> "nullptr"

(* std::vector<std::string> defaultComponents of Load Default Example. *)
defaultComponents ==
    <<"Primary Clarifier", "Primary Sedimentation Tank", "Aeration Tank",
      "Active Sludge Process", "Nitrification Unit", "Secondary Clarifier",
      "Chlorine Disinfection Unit", "Filtration">>

(* The if / else-if chain of Load Default Example. *)
DefaultDispatch(type) ==
    CASE type = "Primary Clarifier" -> "PrimaryClarifier"
      [] type = "Primary Sedimentation Tank" -> "PrimarySedimentationTank"
      [] type = "Aeration Tank" -> "AerationTank"
      [] type = "Active Sludge Process" -> "ActiveSludgeProcess"
      [] type = "Nitrification Unit" -> "NitrificationTank"
      [] type = "Secondary Clarifier" -> "SecondaryClarifier"
      [] type = "Chlorine Disinfection Unit" -> "ChlorineDisinfectionUnit"
      [] type = "Filtration" -> "Filtration"
      [] OTHER -> "nullptr"

(***************************************************************************)
(* The heap and the vectors.                                               *)
(***************************************************************************)
(* operator new: the lowest address that holds no live component (the      *)
(* address of a deleted component is given out again).                     *)
NewAddress(h) ==
    CHOOSE a \in 1..(Cardinality(DOMAIN h) + 1) :
        a \notin DOMAIN h /\ \A b \in 1..(a - 1) : b \in DOMAIN h

(* new <Class>(position) stored at address a *)
Allocate(h, a, cls) ==
    [x \in DOMAIN h \cup {a} |->
        IF x = a THEN NewComponent(cls, ComponentName[cls]) ELSE h[x]]

(* delete on every address of the set gone *)
Delete(h, gone) == [x \in DOMAIN h \ gone |-> h[x]]

(* A slip of Add: components.push_back(comp). *)
InsertAtEnd(comps, comp) == comps \o <<comp>>

(* components.insert(components.end() - 1, comp) *)
InsertBeforeEnd(comps, comp) ==
    SubSeq(comps, 1, Len(comps) - 1) \o <<comp>> \o <<comps[Len(comps)]>>

(* A slip of Remove: components.erase(components.begin() + i - 1). *)
ErasePrevious(comps, i) == SubSeq(comps, 1, i - 2) \o SubSeq(comps, i, Len(comps))

(* components.erase(components.begin() + i), i counted from 1 here *)
Erase(comps, i) == SubSeq(comps, 1, i - 1) \o SubSeq(comps, i + 1, Len(comps))

(* for (i = 0; i < components.size() - 1; ++i)                             *)
(*     connections.push_back(new Connection(components[i], components[i+1])) *)
MakeConnections(comps) == [i \in 1..(Len(comps) - 1) |-> <<comps[i], comps[i + 1]>>]

(***************************************************************************)
(* struct ParameterHistory and updateHistories.                            *)
(***************************************************************************)
(* ParameterHistory(size_t size = 100) *)
maxSize == 100

(* A ParameterHistory as std::map's operator[] constructs it. *)
ParameterHistory == [values |-> <<>>, maxSize |-> maxSize]

(* A slip of addValue: values.size() > maxSize. *)
addValueLate(history, val) ==
    LET kept == IF Len(history.values) > history.maxSize
                THEN Tail(history.values) ELSE history.values
    IN  [history EXCEPT !.values = Append(kept, val)]

(* ParameterHistory::addValue: if (values.size() >= maxSize)               *)
(* values.pop_front(); values.push_back(val);                              *)
addValue(history, val) ==
    LET kept == IF Len(history.values) >= history.maxSize
                THEN Tail(history.values) ELSE history.values
    IN  [history EXCEPT !.values = Append(kept, val)]

(* The inner loop of updateHistories for one component: for every          *)
(* parameter of comp->outletWater, parameterHistories[param].addValue.     *)
(* operator[] inserts the history of a parameter that has none yet.        *)
RecordComponent(hists, comp) ==
    [p \in DOMAIN hists \cup DOMAIN comp.outletWater |->
        IF p \in DOMAIN comp.outletWater
        THEN addValue(IF p \in DOMAIN hists THEN hists[p] ELSE ParameterHistory,
                      comp.outletWater[p])
        ELSE hists[p]]

(* updateHistories(components): for (const auto& comp : components), from  *)
(* position i on, on the heap h.                                           *)
RECURSIVE updateHistories(_, _, _, _)
updateHistories(hists, h, comps, i) ==
    IF i > Len(comps) THEN hists
    ELSE updateHistories(RecordComponent(hists, h[comps[i]]), h, comps, i + 1)

(***************************************************************************)
(* The simulation step of the main loop.                                   *)
(***************************************************************************)
(* A slip of the step: one loop that simulates a component and hands its   *)
(* outlet to the next component at once.                                   *)
RECURSIVE SimulatePassCascading(_, _, _)
SimulatePassCascading(h, comps, i) ==
    IF i > Len(comps) THEN h
    ELSE IF i = 1 THEN SimulatePassCascading(h, comps, i + 1)
    ELSE LET h1 == [h EXCEPT ![comps[i]].outletWater = simulate(h[comps[i]])]
             h2 == IF i < Len(comps)
                   THEN [h1 EXCEPT ![comps[i + 1]].inletWater = h1[comps[i]].outletWater]
                   ELSE h1
         IN  SimulatePassCascading(h2, comps, i + 1)

(* A slip of the step: the first loop leaves out the last component too.   *)
RECURSIVE SimulatePassSkippingSink(_, _, _)
SimulatePassSkippingSink(h, comps, i) ==
    IF i >= Len(comps) THEN h
    ELSE IF i = 1 THEN SimulatePassSkippingSink(h, comps, i + 1)
    ELSE SimulatePassSkippingSink(
             [h EXCEPT ![comps[i]].outletWater = simulate(h[comps[i]])], comps, i + 1)

(* First loop: for (i = 0; i < components.size(); ++i) { if (i == 0)       *)
(* continue; components[i]->simulate(deltaTime); }, from position i on.    *)
(* Positions are counted from 1 here, so the Source is position 1.         *)
RECURSIVE SimulatePass(_, _, _)
SimulatePass(h, comps, i) ==
    IF i > Len(comps) THEN h
    ELSE IF i = 1 THEN SimulatePass(h, comps, i + 1)
    ELSE SimulatePass([h EXCEPT ![comps[i]].outletWater = simulate(h[comps[i]])],
                      comps, i + 1)

(* A slip of the step: the assignment of the second loop the wrong way     *)
(* round, components[i - 1]->outletWater = components[i]->inletWater.      *)
RECURSIVE PropagatePassBackwards(_, _, _)
PropagatePassBackwards(h, comps, i) ==
    IF i > Len(comps) THEN h
    ELSE PropagatePassBackwards(
             [h EXCEPT ![comps[i - 1]].outletWater = h[comps[i]].inletWater], comps, i + 1)

(* A slip of the step: the second loop stops one component short,          *)
(* i < components.size() - 1.                                              *)
RECURSIVE PropagatePassSkippingSink(_, _, _)
PropagatePassSkippingSink(h, comps, i) ==
    IF i >= Len(comps) THEN h
    ELSE PropagatePassSkippingSink(
             [h EXCEPT ![comps[i]].inletWater = h[comps[i - 1]].outletWater], comps, i + 1)

(* Second loop: for (i = 1; i < components.size(); ++i)                    *)
(* components[i]->inletWater = components[i - 1]->outletWater;             *)
RECURSIVE PropagatePass(_, _, _)
PropagatePass(h, comps, i) ==
    IF i > Len(comps) THEN h
    ELSE PropagatePass([h EXCEPT ![comps[i]].inletWater = h[comps[i - 1]].outletWater],
                       comps, i + 1)

(* A slip of the step: updateHistories called before the two loops. *)
StepRecordingFirst ==
    /\ isSimulating
    /\ nTicks < limit.ticks
    /\ heap' = PropagatePass(SimulatePass(heap, components, 1), components, 2)
    /\ parameterHistories' = updateHistories(parameterHistories, heap, components, 1)
    /\ nTicks' = nTicks + 1
    /\ UNCHANGED <<components, connections, isSimulating, newComponentType, nOps,
                   limit, last>>

(* A slip of the main loop: the step taken without if (isSimulating). *)
StepUnguarded ==
    /\ nTicks < limit.ticks
    /\ heap' = PropagatePass(SimulatePass(heap, components, 1), components, 2)
    /\ parameterHistories' = updateHistories(parameterHistories, heap', components, 1)
    /\ nTicks' = nTicks + 1
    /\ UNCHANGED <<components, connections, isSimulating, newComponentType, nOps,
                   limit, last>>

(* if (isSimulating) { ... }: one tick.  deltaTime is passed to simulate    *)
(* and no simulate reads it.                                               *)
Step ==
    /\ isSimulating
    /\ nTicks < limit.ticks
    /\ heap' = PropagatePass(SimulatePass(heap, components, 1), components, 2)
    /\ parameterHistories' = updateHistories(parameterHistories, heap', components, 1)
    /\ nTicks' = nTicks + 1
    /\ UNCHANGED <<components, connections, isSimulating, newComponentType, nOps,
                   limit, last>>

(***************************************************************************)
(* The interface handlers.                                                 *)
(***************************************************************************)
(* A slip of the data model: the second component's inlet shares the       *)
(* Source's outlet sample instead of holding a copy.                       *)
EditSourceShared(param, value) ==
    /\ nOps < limit.ops
    /\ heap' = [heap EXCEPT
                    ![inlet].outletWater = updateParameter(@, param, value),
                    ![components[2]].inletWater =
                        updateParameter(heap[inlet].outletWater, param, value)]
    /\ nOps' = nOps + 1
    /\ UNCHANGED <<components, connections, isSimulating, newComponentType,
                   parameterHistories, nTicks, limit, last>>

(* ImGui::InputFloat on a parameter of the Source's outlet *)
EditSource(param, value) ==
    /\ nOps < limit.ops
    /\ heap' = [heap EXCEPT ![inlet].outletWater = updateParameter(@, param, value)]
    /\ nOps' = nOps + 1
    /\ UNCHANGED <<components, connections, isSimulating, newComponentType,
                   parameterHistories, nTicks, limit, last>>

(* Start Simulation *)
StartSimulation ==
    /\ isSimulating' = TRUE
    /\ UNCHANGED <<components, heap, connections, newComponentType, nOps,
                   parameterHistories, nTicks, limit, last>>

(* Stop Simulation *)
StopSimulation ==
    /\ isSimulating' = FALSE
    /\ UNCHANGED <<components, heap, connections, newComponentType, nOps,
                   parameterHistories, nTicks, limit, last>>

(* The names of the chain's components, in order. *)
Names(h, comps) == [i \in 1..Len(comps) |-> h[comps[i]].name]

(* The intermediate components: those the handlers delete. *)
Intermediate(comps) == {comps[i] : i \in 1..Len(comps)} \ {inlet, outlet}

(* A slip of Reset: components.clear() left out. *)
ResetWithoutClear ==
    /\ nOps < limit.ops
    /\ heap' = Delete(heap, Intermediate(components))
    /\ components' = components \o <<inlet, outlet>>
    /\ connections' = <<>>
    /\ nOps' = nOps + 1
    /\ last' = [op |-> "Reset", names |-> Names(heap, components)]
    /\ UNCHANGED <<isSimulating, newComponentType, parameterHistories, nTicks, limit>>

(* A slip of Reset: the Source and the Sink deleted with the rest and      *)
(* constructed anew.                                                       *)
ResetRebuildingEndpoints ==
    /\ nOps < limit.ops
    /\ heap' = [a \in {inlet, outlet} |-> IF a = inlet THEN Inlet ELSE Outlet]
    /\ components' = <<inlet, outlet>>
    /\ connections' = <<>>
    /\ nOps' = nOps + 1
    /\ last' = [op |-> "Reset", names |-> Names(heap, components)]
    /\ UNCHANGED <<isSimulating, newComponentType, parameterHistories, nTicks, limit>>

(* Reset *)
Reset ==
    /\ nOps < limit.ops
    /\ heap' = Delete(heap, Intermediate(components))
    /\ components' = <<inlet, outlet>>
    /\ connections' = <<>>
    /\ nOps' = nOps + 1
    /\ last' = [op |-> "Reset", names |-> Names(heap, components)]
    /\ UNCHANGED <<isSimulating, newComponentType, parameterHistories, nTicks, limit>>

(* The loop of Load Default Example over defaultComponents, from entry k   *)
(* on: <<heap, components>> after the remaining inserts.                   *)
RECURSIVE LoadDefaults(_, _, _)
LoadDefaults(h, comps, k) ==
    IF k > Len(defaultComponents) THEN <<h, comps>>
    ELSE LET comp == NewAddress(h)
         IN  LoadDefaults(Allocate(h, comp, DefaultDispatch(defaultComponents[k])),
                          InsertBeforeEnd(comps, comp), k + 1)

(* A slip of Load Default Example: the current components are not cleared. *)
LoadDefaultExampleWithoutReset ==
    /\ nOps < limit.ops
    /\ LET loaded == LoadDefaults(heap, components, 1)
       IN  /\ heap' = loaded[1]
           /\ components' = loaded[2]
           /\ connections' = MakeConnections(loaded[2])
    /\ nOps' = nOps + 1
    /\ last' = [op |-> "Load Default Example", names |-> Names(heap, components)]
    /\ UNCHANGED <<isSimulating, newComponentType, parameterHistories, nTicks, limit>>

(* Load Default Example *)
LoadDefaultExample ==
    /\ nOps < limit.ops
    /\ LET loaded == LoadDefaults(Delete(heap, Intermediate(components)),
                                  <<inlet, outlet>>, 1)
       IN  /\ heap' = loaded[1]
           /\ components' = loaded[2]
           /\ connections' = MakeConnections(loaded[2])
    /\ nOps' = nOps + 1
    /\ last' = [op |-> "Load Default Example", names |-> Names(heap, components)]
    /\ UNCHANGED <<isSimulating, newComponentType, parameterHistories, nTicks, limit>>

(* ImGui::Selectable in the Type combo *)
SelectType(type) ==
    /\ newComponentType' = type
    /\ UNCHANGED <<components, heap, connections, isSimulating, nOps,
                   parameterHistories, nTicks, limit, last>>

(* A slip of Add: the new unit's inlet is given its predecessor's outlet   *)
(* when it is inserted.                                                    *)
AddPrimed ==
    /\ nOps < limit.ops
    /\ Len(components) < MaxChain
    /\ LET cls == AddDispatch(newComponentType)
           comp == NewAddress(heap)
       IN  IF cls # "nullptr"
           THEN /\ heap' = [Allocate(heap, comp, cls) EXCEPT
                               ![comp].inletWater =
                                   heap[components[Len(components) - 1]].outletWater]
                /\ components' = InsertBeforeEnd(components, comp)
                /\ connections' = MakeConnections(components')
           ELSE UNCHANGED <<heap, components, connections>>
    /\ nOps' = nOps + 1
    /\ last' = [op |-> "Add", names |-> Names(heap, components)]
    /\ UNCHANGED <<isSimulating, newComponentType, parameterHistories, nTicks, limit>>

(* Add *)
Add ==
    /\ nOps < limit.ops
    /\ Len(components) < MaxChain
    /\ LET cls == AddDispatch(newComponentType)
           comp == NewAddress(heap)
       IN  IF cls # "nullptr"
           THEN /\ heap' = Allocate(heap, comp, cls)
                /\ components' = InsertBeforeEnd(components, comp)
                /\ connections' = MakeConnections(components')
           ELSE UNCHANGED <<heap, components, connections>>
    /\ nOps' = nOps + 1
    /\ last' = [op |-> "Add", names |-> Names(heap, components)]
    /\ UNCHANGED <<isSimulating, newComponentType, parameterHistories, nTicks, limit>>

(* The Removal Efficiencies loop of an open panel, which runs in every     *)
(* frame that shows the panel: comp->removalEfficiencies[param.first]      *)
(* inserts an entry 0 for every parameter that has none.                   *)
ShowRemovalEfficiencies(c) ==
    [c EXCEPT !.removalEfficiencies =
        [p \in WaterParameter |-> IF p \in DOMAIN @ THEN @[p] ELSE 0]]

(* Component::addRemovalEfficiency *)
addRemovalEfficiency(c, param, efficiency) ==
    [c EXCEPT !.removalEfficiencies =
        [p \in DOMAIN @ \cup {param} |-> IF p = param THEN efficiency ELSE @[p]]]

(* Component::removeRemovalEfficiency *)
removeRemovalEfficiency(c, param) ==
    [c EXCEPT !.removalEfficiencies = [p \in DOMAIN @ \ {param} |-> @[p]]]

(* The panel of position i is opened (ImGui::CollapsingHeader) and shown. *)
OpenPanel(i) ==
    /\ nOps < limit.ops
    /\ i > 1 /\ i < Len(components)
    /\ heap' = [heap EXCEPT ![components[i]] = ShowRemovalEfficiencies(@)]
    /\ nOps' = nOps + 1
    /\ UNCHANGED <<components, connections, isSimulating, newComponentType,
                   parameterHistories, nTicks, limit, last>>

(* ImGui::SliderFloat("Efficiency <param>") in the panel of position i *)
SetRemovalEfficiency(i, param, efficiency) ==
    /\ nOps < limit.ops
    /\ i > 1 /\ i < Len(components)
    /\ heap' = [heap EXCEPT ![components[i]] =
                    addRemovalEfficiency(ShowRemovalEfficiencies(@), param, efficiency)]
    /\ nOps' = nOps + 1
    /\ UNCHANGED <<components, connections, isSimulating, newComponentType,
                   parameterHistories, nTicks, limit, last>>

(* ImGui::Button("Remove <param>") in the panel of position i: the entry   *)
(* is erased after the loop has passed it in this frame.                   *)
ClearRemovalEfficiency(i, param) ==
    /\ nOps < limit.ops
    /\ i > 1 /\ i < Len(components)
    /\ heap' = [heap EXCEPT ![components[i]] =
                    removeRemovalEfficiency(ShowRemovalEfficiencies(@), param)]
    /\ nOps' = nOps + 1
    /\ UNCHANGED <<components, connections, isSimulating, newComponentType,
                   parameterHistories, nTicks, limit, last>>

(* ImGui::InputFloat("HRT (hrs)", &comp->HRT) in the panel of position i,  *)
(* and the rest of the panel shown in the same frame.                      *)
EditHRT(i, value) ==
    /\ nOps < limit.ops
    /\ i > 1 /\ i < Len(components)
    /\ heap' = [heap EXCEPT ![components[i]] =
                    ShowRemovalEfficiencies([@ EXCEPT !.HRT = value])]
    /\ nOps' = nOps + 1
    /\ UNCHANGED <<components, connections, isSimulating, newComponentType,
                   parameterHistories, nTicks, limit, last>>

(* ImGui::InputFloat("Temperature", &comp->temperature) in the panel of    *)
(* position i, and the rest of the panel shown in the same frame.          *)
EditTemperature(i, value) ==
    /\ nOps < limit.ops
    /\ i > 1 /\ i < Len(components)
    /\ heap' = [heap EXCEPT ![components[i]] =
                    ShowRemovalEfficiencies([@ EXCEPT !.temperature = value])]
    /\ nOps' = nOps + 1
    /\ UNCHANGED <<components, connections, isSimulating, newComponentType,
                   parameterHistories, nTicks, limit, last>>

(* A slip of the panel: the Remove button shown in every panel. *)
RemoveAnywhere(i) ==
    /\ nOps < limit.ops
    /\ i >= 1 /\ i <= Len(components)
    /\ heap' = Delete(heap, {components[i]})
    /\ components' = Erase(components, i)
    /\ connections' = MakeConnections(components')
    /\ nOps' = nOps + 1
    /\ last' = [op |-> "Remove", names |-> Names(heap, components)]
    /\ UNCHANGED <<isSimulating, newComponentType, parameterHistories, nTicks, limit>>

(* Remove, in the panel of position i: offered for neither the first nor   *)
(* the last position.                                                      *)
Remove(i) ==
    /\ nOps < limit.ops
    /\ i > 1 /\ i < Len(components)
    /\ heap' = Delete(heap, {components[i]})
    /\ components' = Erase(components, i)
    /\ connections' = MakeConnections(components')
    /\ nOps' = nOps + 1
    /\ last' = [op |-> "Remove", names |-> Names(heap, components)]
    /\ UNCHANGED <<isSimulating, newComponentType, parameterHistories, nTicks, limit>>

(***************************************************************************)
(* The program: main up to its loop, then any of the loop's steps.         *)
(***************************************************************************)
Init ==
    /\ components = <<inlet, outlet>>
    /\ heap = [a \in {inlet, outlet} |-> IF a = inlet THEN Inlet ELSE Outlet]
    /\ connections = <<>>
    /\ isSimulating = FALSE
    /\ newComponentType = "Primary Sedimentation Tank"
    /\ nOps = 0
    /\ parameterHistories = [p \in {} |-> ParameterHistory]
    /\ nTicks = 0
    /\ limit = [ops |-> MaxOps, ticks |-> MaxTicks]
    /\ last = [op |-> "none", names |-> <<>>]

Next ==
    \/ Step
    \/ \E param \in EditedParameters, value \in InputValues : EditSource(param, value)
    \/ StartSimulation
    \/ StopSimulation
    \/ Reset
    \/ LoadDefaultExample
    \/ \E type \in SelectedTypes : SelectType(type)
    \/ Add
    \/ \E i \in PanelPositions, value \in HRTValues : EditHRT(i, value)
    \/ \E i \in PanelPositions : OpenPanel(i)
    \/ \E i \in PanelPositions, param \in EfficiencyParameters,
          efficiency \in EfficiencyValues : SetRemovalEfficiency(i, param, efficiency)
    \/ \E i \in PanelPositions, param \in EfficiencyParameters :
          ClearRemovalEfficiency(i, param)
    \/ \E i \in 1..Len(components) : Remove(i)

Spec == Init /\ [][Next]_vars

(***************************************************************************)
(* One unit on its own: every component class, fed a range of inlet        *)
(* samples.  The chain is Source, unit, Sink; the Source's outlet has been *)
(* edited to the sample w, the unit's HRT field to hrt, and one tick has   *)
(* run, so that the unit's inlet holds w.  From there the simulation runs. *)
(***************************************************************************)
(* The samples: the default sample or the all-zero sample, at one of the   *)
(* temperatures, with one further parameter set to one of the values.      *)
SampleTemperatures == {200, 300}

SampleValues == {-10, 0, 3, 5000}

SampleHRTs == {-10, 0, 100}

SampleBases == {Water, [p \in WaterParameter |-> 0]}

Samples ==
    {[base EXCEPT !["TEMP"] = t, ![p] = v] :
        base \in SampleBases, t \in SampleTemperatures,
        p \in WaterParameter \ {"TEMP"}, v \in SampleValues}

unit == 3

InitTF ==
    \E cls \in ComponentClasses, hrt \in SampleHRTs, w \in Samples :
        LET built == [a \in {inlet, unit, outlet} |->
                        IF a = inlet THEN [Inlet EXCEPT !.outletWater = w]
                        ELSE IF a = outlet THEN Outlet
                        ELSE [NewComponent(cls, ComponentName[cls]) EXCEPT !.HRT = hrt]]
            chain == <<inlet, unit, outlet>>
        IN  /\ components = chain
            /\ heap = PropagatePass(SimulatePass(built, chain, 1), chain, 2)
            /\ connections = MakeConnections(chain)
            /\ isSimulating = TRUE
            /\ newComponentType = "Primary Sedimentation Tank"
            /\ nOps = 0
            /\ parameterHistories =
                   updateHistories([p \in {} |-> ParameterHistory], heap, chain, 1)
            /\ nTicks = 1
            /\ limit = [ops |-> 0, ticks |-> MaxTicks]
            /\ last = [op |-> "none", names |-> <<>>]

NextTF == Step

SpecTF == InitTF /\ [][NextTF]_vars

(***************************************************************************)
(* The chain on its own: the handlers that change the topology, with the   *)
(* simulation stopped, for one event more than in the plant's runs.        *)
(***************************************************************************)
MaxOpsRT == 3

InitRT ==
    /\ components = <<inlet, outlet>>
    /\ heap = [a \in {inlet, outlet} |-> IF a = inlet THEN Inlet ELSE Outlet]
    /\ connections = <<>>
    /\ isSimulating = FALSE
    /\ newComponentType = "Primary Sedimentation Tank"
    /\ nOps = 0
    /\ parameterHistories = [p \in {} |-> ParameterHistory]
    /\ nTicks = 0
    /\ limit = [ops |-> MaxOpsRT, ticks |-> 0]
    /\ last = [op |-> "none", names |-> <<>>]

NextRT ==
    \/ Reset
    \/ LoadDefaultExample
    \/ \E type \in SelectedTypes : SelectType(type)
    \/ Add
    \/ \E i \in 1..Len(components) : Remove(i)

SpecRT == InitRT /\ [][NextRT]_vars

(***************************************************************************)
(* A long run: the default example, whole or with its first unit removed,  *)
(* the Source's outlet edited, and the simulation started and left running *)
(* until the histories are full and have dropped values.                   *)
(***************************************************************************)
MaxTicksH == 12

SamplesH ==
    {[Water EXCEPT ![p] = v] : p \in {"BOD", "TSS", "NH4"}, v \in SampleValues}

InitH ==
    \E w \in SamplesH, removed \in BOOLEAN :
        LET start == [a \in {inlet, outlet} |->
                        IF a = inlet THEN [Inlet EXCEPT !.outletWater = w] ELSE Outlet]
            loaded == LoadDefaults(start, <<inlet, outlet>>, 1)
            chain == IF removed THEN Erase(loaded[2], 2) ELSE loaded[2]
        IN  /\ components = chain
            /\ heap = IF removed THEN Delete(loaded[1], {loaded[2][2]}) ELSE loaded[1]
            /\ connections = MakeConnections(chain)
            /\ isSimulating = TRUE
            /\ newComponentType = "Primary Sedimentation Tank"
            /\ nOps = 0
            /\ parameterHistories = [p \in {} |-> ParameterHistory]
            /\ nTicks = 0
            /\ limit = [ops |-> 0, ticks |-> MaxTicksH]
            /\ last = [op |-> IF removed THEN "Remove" ELSE "Load Default Example",
                       names |-> IF removed THEN Names(loaded[1], loaded[2])
                                 ELSE <<"Inlet", "Outlet">>]

NextH == Step

SpecH == InitH /\ [][NextH]_vars

(***************************************************************************)
(* The kinetic units and their temperatures: the chain Source, a unit of   *)
(* the kinetic family as constructed, Sink, with the Source's outlet       *)
(* edited to a sample at 20 or at 30 degrees and the simulation running;   *)
(* the unit's Temperature field is edited at any moment of the run.        *)
(***************************************************************************)
MaxTicksK == 3

MaxOpsK == 1

(* The values typed into a unit's Temperature field (tenths of a degree). *)
TemperatureValues == {200, 300}

SamplesK ==
    {[Water EXCEPT !["TEMP"] = t, ![p] = v] :
        t \in SampleTemperatures, p \in {"BOD", "NH4"}, v \in {3, 5000}}

InitK ==
    \E cls \in {"AerationTank", "Biofilter", "AnaerobicAerobicFilter", "MBR",
                "ActiveSludgeProcess", "NitrificationTank"}, w \in SamplesK :
        LET chain == <<inlet, unit, outlet>>
        IN  /\ components = chain
            /\ heap = [a \in {inlet, unit, outlet} |->
                          IF a = inlet THEN [Inlet EXCEPT !.outletWater = w]
                          ELSE IF a = outlet THEN Outlet
                          ELSE NewComponent(cls, ComponentName[cls])]
            /\ connections = MakeConnections(chain)
            /\ isSimulating = TRUE
            /\ newComponentType = "Primary Sedimentation Tank"
            /\ nOps = 0
            /\ parameterHistories = [p \in {} |-> ParameterHistory]
            /\ nTicks = 0
            /\ limit = [ops |-> MaxOpsK, ticks |-> MaxTicksK]
            /\ last = [op |-> "none", names |-> <<>>]

NextK ==
    \/ Step
    \/ \E value \in TemperatureValues : EditTemperature(2, value)

SpecK == InitK /\ [][NextK]_vars

(***************************************************************************)
(* Properties.                                                             *)
(***************************************************************************)
Size == Len(components)

(* The component at position i of the chain, positions counted from 1. *)
At(i) == heap[components[i]]

(* Component a with the sample w as its inlet. *)
Fed(a, w) == [heap[a] EXCEPT !.inletWater = w]

Source == heap[inlet]

Sink == heap[outlet]

(* C1. Two-pass isolation: in a step every simulated component's new       *)
(* outlet is its transfer function applied to the component as it was when *)
(* the step began (so to the inlet it held then, and to no outlet produced *)
(* in this tick, whatever the order of the visits), and every inlet after  *)
(* the step is the predecessor's outlet after the step: the inlets are     *)
(* written only when all outlets are.                                      *)
TwoPassIsolation ==
    [][Step =>
        \A i \in 2..Size :
            /\ heap'[components[i]].outletWater = simulate(At(i))
            /\ heap'[components[i]].inletWater = heap'[components[i - 1]].outletWater]_vars

(* A step has run after the Source was edited: the first unit already      *)
(* holds the edited sample as its inlet, and its outlet is still the one   *)
(* computed from the inlet it held before.                                 *)
TwoPassIsolationWitness ==
    /\ Size >= 3
    /\ At(2).inletWater = Source.outletWater
    /\ At(2).inletWater # Water
    /\ At(2).outletWater # Water
    /\ At(2).outletWater # simulate(At(2))

(* C2, as claimed. For three consecutive units A, B, C a step leaves in B  *)
(* the transfer function of B applied to the outlet A held before the      *)
(* step, in every reachable state.                                         *)
ChainOrderEverywhere ==
    [][Step =>
        \A i \in 2..(Size - 1) :
            heap'[components[i]].outletWater =
                simulate(Fed(components[i], At(i - 1).outletWater))]_vars

(* C2, amended. A step leaves in B the transfer function of B applied to   *)
(* the inlet B held before the step; where that inlet is the outlet A held *)
(* before the step, as every step leaves it, B's new outlet is B's         *)
(* transfer function of A's outlet from before the step and not of the     *)
(* outlet A gets in this step; and the step leaves B's inlet equal to A's  *)
(* new outlet.                                                             *)
ChainOrderAfterAStep ==
    [][Step =>
        \A i \in 2..(Size - 1) :
            /\ heap'[components[i]].outletWater = simulate(At(i))
            /\ At(i).inletWater = At(i - 1).outletWater =>
                  heap'[components[i]].outletWater =
                      simulate(Fed(components[i], At(i - 1).outletWater))
            /\ heap'[components[i]].inletWater = heap'[components[i - 1]].outletWater]_vars

(* Steps have run through a chain of two units: the second unit holds the  *)
(* first unit's outlet as its inlet, and that outlet is no longer the      *)
(* sample the unit was constructed with.                                   *)
ChainOrderWitness ==
    /\ Size >= 4
    /\ isSimulating
    /\ At(2).outletWater # Water
    /\ At(3).inletWater = At(2).outletWater
    /\ At(3).outletWater = simulate(At(3))

(* C3. The chain has at least two components; the Source is first, the     *)
(* Sink is last, each occurs once, and both are live.                      *)
EndpointsInvariant ==
    /\ Size >= 2
    /\ components[1] = inlet
    /\ components[Size] = outlet
    /\ \A i \in 2..Size : components[i] # inlet
    /\ \A i \in 1..(Size - 1) : components[i] # outlet
    /\ {inlet, outlet} \subseteq DOMAIN heap
    /\ Source.cls = "Inlet"
    /\ Sink.cls = "Outlet"

(* The default example was loaded and one of its units removed. *)
EndpointsWitness ==
    /\ Size = Len(defaultComponents) + 1
    /\ nOps = 2
    /\ components[1] = inlet
    /\ components[Size] = outlet

(* C4. With only Source and Sink in the chain, a step leaves the Sink's    *)
(* inlet equal to the Source's outlet, on every parameter, whatever value  *)
(* the Source's outlet holds; the step does not change that value.         *)
PassThroughIdentity ==
    [][(Step /\ Size = 2) =>
        \A p \in WaterParameter :
            /\ heap'[outlet].inletWater[p] = heap[inlet].outletWater[p]
            /\ heap'[inlet].outletWater[p] = heap[inlet].outletWater[p]]_vars

(* The Source's outlet was edited and a step has carried it to the Sink. *)
PassThroughWitness ==
    /\ Size = 2
    /\ isSimulating
    /\ Source.outletWater # Water
    /\ Sink.inletWater = Source.outletWater

Concentrations == WaterParameter \ {"PH", "TEMP"}

NonNegative(w, params) == \A p \in params : w[p] >= 0

(* C6, as claimed. A component whose inlet holds no negative value and     *)
(* whose HRT is not negative gets, in a step, an outlet with no negative   *)
(* concentration.                                                          *)
NonNegativity ==
    [][Step =>
        \A i \in 2..(Size - 1) :
            (NonNegative(At(i).inletWater, WaterParameter) /\ At(i).HRT >= 0) =>
                NonNegative(heap'[components[i]].outletWater, Concentrations)]_vars

(* The classes of the kinetic family. *)
KineticFamily ==
    {"AerationTank", "Biofilter", "AnaerobicAerobicFilter", "MBR",
     "ActiveSludgeProcess", "NitrificationTank"}

(* C7, as claimed. After a step the outlet of a unit of the kinetic family *)
(* holds no negative dissolved oxygen, whatever its inlet held.            *)
DissolvedOxygenNonNegative ==
    [][Step =>
        \A i \in 2..(Size - 1) :
            At(i).cls \in KineticFamily =>
                heap'[components[i]].outletWater["DO"] >= 0]_vars

(* The parameters a class only removes: those its simulate writes as the   *)
(* inlet value times (1 - e), or as the inlet value less e times itself,   *)
(* with e a constant in [0,1] or the kinetic fraction.                     *)
RemovalTargets(cls) ==
    CASE cls = "PrimaryClarifier" -> {"TSS", "OIL", "TURBIDITY"}
      [] cls = "ElectrocoagulationUnit" -> {"METALS", "TSS"}
      [] cls = "Filtration" -> {"TSS", "TURBIDITY"}
      [] cls \in {"AnaerobicAerobicFilter", "MBR", "Biofilter"} -> {"BOD", "COD", "NH4"}
      [] cls = "OzoneDisinfection" -> {"PATHOGENS", "COD", "TSS"}
      [] cls = "PrimarySedimentationTank" -> {"TSS", "BOD", "TURBIDITY", "PATHOGENS"}
      [] cls = "AerationTank" -> {"BOD", "NH4"}
      [] cls = "SecondaryClarifier" -> {"TSS", "TURBIDITY"}
      [] cls = "ChlorineDisinfectionUnit" -> {"PATHOGENS"}
      [] cls = "NitrificationTank" -> {"NH4"}
      [] cls = "UVDisinfection" -> {"PATHOGENS"}
      [] cls = "AnaerobicFilter" -> {"COD"}
      [] cls = "CoagulationFlocculation" -> {"COD", "TSS"}
      [] cls = "MembraneFiltration" -> {"COD", "TSS", "PATHOGENS"}
      [] cls = "ChemicalOxidation" -> {"COD", "TURBIDITY"}
      [] cls = "ActiveSludgeProcess" -> {"BOD", "NH4", "COD"}
      [] cls = "SludgeDigester" -> {"TSS"}
      [] cls = "OilSeparator" -> {"OIL", "TURBIDITY"}
      [] cls = "PhosphorusRemovalUnit" -> {"P"}
      [] cls = "DryingBed" -> {"TSS"}
      [] cls = "WaterSoftener" -> {"HARDNESS"}
      [] cls = "ActivatedCarbonFilter" -> {"COD"}
      [] cls = "MetalsRemovalUnit" -> {"METALS"}
      [] cls = "MembraneFiltrationUnit" -> {"PATHOGENS", "TSS"}
      [] cls = "ReverseOsmosisUnit" -> {"SALINITY", "EC"}
      [] OTHER -> {}

(* Every inlet holds the predecessor's outlet and every outlet is the      *)
(* transfer function of the inlet: further steps change nothing.           *)
Settled ==
    \A i \in 2..Size :
        /\ At(i).inletWater = At(i - 1).outletWater
        /\ At(i).outletWater = simulate(At(i))

(* C8. A step leaves, in every unit and for every parameter p the unit     *)
(* only removes, an outlet value of p no greater than the inlet value the  *)
(* unit held, when that value is not negative (and the HRT is not          *)
(* negative, so that the kinetic fraction lies in [0,1]); and once a chain *)
(* made only of units that remove p has settled, the value of p at the     *)
(* Sink's inlet does not exceed the value at the Source's outlet.          *)
RemovalMonotone ==
    /\ [][Step =>
            \A i \in 2..(Size - 1) : \A p \in RemovalTargets(At(i).cls) :
                (At(i).inletWater[p] >= 0 /\ At(i).HRT >= 0) =>
                    heap'[components[i]].outletWater[p] <= At(i).inletWater[p]]_vars
    /\ [](\A p \in WaterParameter :
              (/\ Settled
               /\ Source.outletWater[p] >= 0
               /\ \A i \in 2..(Size - 1) :
                     p \in RemovalTargets(At(i).cls) /\ At(i).HRT >= 0) =>
                  Sink.inletWater[p] <= Source.outletWater[p])

(* A settled chain in which the unit has removed part of a parameter. *)
RemovalWitness ==
    /\ Settled
    /\ Size = 3
    /\ At(2).HRT > 0
    /\ \E p \in RemovalTargets(At(2).cls) :
          /\ At(2).inletWater[p] > 0
          /\ At(2).outletWater[p] < At(2).inletWater[p]
          /\ Sink.inletWater[p] < Source.outletWater[p]

(* C9, as claimed. Add lengthens the chain by one component, which stands  *)
(* right before the Sink, and the components that were there keep their    *)
(* order.                                                                  *)
AddInsertsBeforeSink ==
    [][Add =>
        /\ Len(components') = Size + 1
        /\ components'[Size] \notin DOMAIN heap
        /\ components'[Size + 1] = outlet
        /\ \A j \in 1..(Size - 1) : components'[j] = components[j]]_vars

(* C10. Remove at position i deletes the component at i and no other,      *)
(* shortens the chain by one and closes the gap: the components before i   *)
(* keep their positions, those after i move down by one, and every         *)
(* component that is left is as it was.                                    *)
RemoveClosesGap ==
    [][\A i \in 1..Size :
        Remove(i) =>
            /\ Len(components') = Size - 1
            /\ \A j \in 1..(i - 1) : components'[j] = components[j]
            /\ \A j \in (i + 1)..Size : components'[j - 1] = components[j]
            /\ DOMAIN heap' = DOMAIN heap \ {components[i]}
            /\ \A a \in DOMAIN heap' : heap'[a] = heap[a]]_vars

(* A unit in the middle of the default example was removed: its            *)
(* neighbours are now adjacent.                                            *)
RemoveWitness ==
    /\ Size = Len(defaultComponents) + 1
    /\ At(2).cls = "PrimaryClarifier"
    /\ At(3).cls = "AerationTank"
    /\ Cardinality(DOMAIN heap) = Size

(* C11, as claimed. Add followed by Remove at the position where Add puts  *)
(* a new unit, the last but one, leaves the names of the chain as they     *)
(* were before the Add.                                                    *)
AddRemoveRoundTrip ==
    [][\A i \in 1..Size :
        (last.op = "Add" /\ i = Size - 1 /\ Remove(i)) =>
            Names(heap', components') = last.names]_vars

(* C12. No Remove can be taken at the Source's position, at the Sink's     *)
(* position or at a position outside the chain, so such a Remove changes   *)
(* nothing; and in every reachable state the Source and the Sink are live  *)
(* components of their class and stand in the chain.                       *)
RemoveRejectedAtEndpoints ==
    /\ \A i \in 0..(Size + 1) : (i <= 1 \/ i >= Size) => ~ENABLED Remove(i)
    /\ \A a \in {inlet, outlet} :
          /\ a \in DOMAIN heap
          /\ heap[a].cls = (IF a = inlet THEN "Inlet" ELSE "Outlet")
          /\ \E i \in 1..Size : components[i] = a

(* The default example is loaded: a Remove can be taken at a unit, and     *)
(* none can be taken at the two ends.                                      *)
RemoveRejectedWitness ==
    /\ last.op = "Load Default Example"
    /\ Size >= 3
    /\ ENABLED Remove(2)
    /\ ~ENABLED Remove(1)
    /\ ~ENABLED Remove(Size)

(* C13. Reset leaves the chain equal to <<Source, Sink>>: every            *)
(* intermediate component is deleted, and the Source and the Sink are the  *)
(* components they were, with the samples they held.                       *)
ResetLeavesEndpoints ==
    [][Reset =>
        /\ components' = <<inlet, outlet>>
        /\ DOMAIN heap' = {inlet, outlet}
        /\ heap'[inlet] = heap[inlet]
        /\ heap'[outlet] = heap[outlet]]_vars

(* Reset has cleared a chain that held units and had been stepped. *)
ResetWitness ==
    /\ last.op = "Reset"
    /\ Len(last.names) > 2
    /\ components = <<inlet, outlet>>
    /\ Sink.inletWater # Water

(* The series of parameter p: empty while the map holds no entry for p. *)
Series(hists, p) == IF p \in DOMAIN hists THEN hists[p].values ELSE <<>>

(* The last n elements of the sequence q, all of q when it is shorter. *)
LastN(q, n) == IF Len(q) <= n THEN q ELSE SubSeq(q, Len(q) - n + 1, Len(q))

(* C14. No series is ever longer than the capacity, 100; and a step that   *)
(* appends values to a series leaves the last 100 of the old series        *)
(* followed by the appended values, in that order: the values dropped are  *)
(* the oldest, the most recent value is last.                              *)
HistoryBoundedFifo ==
    /\ [](\A p \in DOMAIN parameterHistories :
             Len(parameterHistories[p].values) <= 100)
    /\ [][Step =>
            \A p \in WaterParameter :
                LET old == Series(parameterHistories, p)
                    new == Series(parameterHistories', p)
                    appended == LastN(new, Size)
                IN  /\ Len(appended) = Size
                    /\ new = LastN(old \o appended, 100)]_vars

(* More than 100 values have been appended to a series, which holds 100,   *)
(* the last of them the Sink's outlet value of the last step.              *)
HistoryWitness ==
    /\ nTicks * Size > 100
    /\ Size = 9
    /\ Len(Series(parameterHistories, "BOD")) = 100
    /\ Series(parameterHistories, "BOD")[100] = Sink.outletWater["BOD"]
    /\ Series(parameterHistories, "BOD")[1] # Series(parameterHistories, "BOD")[100]

(* The outlet values of parameter p in the heap h, one for every component *)
(* of the chain, in chain order.                                           *)
OutletValues(h, comps, p) == [i \in 1..Len(comps) |-> h[comps[i]].outletWater[p]]

(* C15. A step appends to the series of every parameter exactly one value  *)
(* for every component of the chain, the Source and the Sink included, in  *)
(* chain order, and the value is the component's outlet value as the step  *)
(* leaves it: the histories are recorded after the simulate loop and the   *)
(* propagation loop.                                                       *)
RecordedAfterPasses ==
    [][Step =>
        \A p \in WaterParameter :
            Series(parameterHistories', p) =
                LastN(Series(parameterHistories, p)
                          \o OutletValues(heap', components, p), 100)]_vars

(* Two steps have been recorded for a chain of three; the last three       *)
(* values of a series are the outlets of the Source, the unit and the Sink.*)
RecordedWitness ==
    /\ Size = 3
    /\ nTicks = 2
    /\ Series(parameterHistories, "BOD") =
           <<Source.outletWater["BOD"], At(2).outletWater["BOD"], Water["BOD"],
             Source.outletWater["BOD"], At(2).outletWater["BOD"], Sink.outletWater["BOD"]>>
    /\ Sink.outletWater["BOD"] # Water["BOD"]

(* The components that a step of the program keeps: Reset and Load Default *)
(* Example keep the Source and the Sink (Load Default Example constructs   *)
(* new components where the deleted ones were), every other step keeps the *)
(* components that are live before and after it.                           *)
Kept ==
    IF /\ last'.op \in {"Reset", "Load Default Example"}
       /\ nOps' # nOps
       /\ Reset \/ LoadDefaultExample
    THEN {inlet, outlet}
    ELSE DOMAIN heap \cap DOMAIN heap'

(* C16. In every step of the program and for every component it keeps:     *)
(* the inlet changes only in a simulation step, where it becomes the       *)
(* outlet its predecessor has after the step; the outlet of a component    *)
(* other than the Source changes only in a simulation step, where it       *)
(* becomes the component's own transfer function of what it held; the      *)
(* Source's outlet changes only by an edit of the Source and never in a    *)
(* simulation step.  So a write to one sample changes no other sample.     *)
(* The simulation steps are the steps that count a tick.                   *)
WriterDiscipline ==
    [][/\ nTicks' # nTicks => Step
       /\ \A a \in Kept :
              /\ heap'[a].inletWater # heap[a].inletWater =>
                    /\ nTicks' # nTicks
                    /\ \E i \in 2..Size :
                          /\ components[i] = a
                          /\ heap'[a].inletWater = heap'[components[i - 1]].outletWater
              /\ (a # inlet /\ heap'[a].outletWater # heap[a].outletWater) =>
                    /\ nTicks' # nTicks
                    /\ heap'[a].outletWater = simulate(heap[a])
              /\ (a = inlet /\ heap'[a].outletWater # heap[a].outletWater) =>
                    /\ nTicks' = nTicks
                    /\ \E param \in EditedParameters, value \in InputValues :
                          EditSource(param, value)]_vars

(* The Source's outlet was edited after a step: the unit's inlet and       *)
(* outlet are still what the step left.                                    *)
WriterWitness ==
    /\ Size = 3
    /\ nTicks >= 1
    /\ Source.outletWater # Water
    /\ At(2).inletWater = Water
    /\ At(2).outletWater = simulate(At(2))
    /\ Sink.inletWater = At(2).outletWater

(* Components of the class and configuration of c that hold the inlet of  *)
(* c and nothing else of c: new components, with the outlet a new          *)
(* component has, or which have held other outlets.                        *)
Canonical(c) ==
    {[NewComponent(c.cls, c.name) EXCEPT
         !.HRT = c.HRT, !.temperature = c.temperature,
         !.removalEfficiencies = c.removalEfficiencies,
         !.inletWater = c.inletWater, !.outletWater = previous] :
      previous \in {Water, c.inletWater, [p \in WaterParameter |-> 0]}}

(* C17. The outlet a step gives a component is the transfer function of    *)
(* the component's class applied to its inlet and its configuration alone: *)
(* it is the outlet any component of that class and configuration gets     *)
(* from the same inlet, whatever outlet the component held before, and two *)
(* components of the chain with equal class, configuration and inlet get   *)
(* equal outlets, whatever else the plant and the histories hold.          *)
Deterministic ==
    [][Step =>
        \A i \in 2..Size :
            /\ \A c \in Canonical(At(i)) :
                  heap'[components[i]].outletWater = simulate(c)
            /\ \A j \in 2..Size :
                  Canonical(At(i)) = Canonical(At(j)) =>
                      heap'[components[i]].outletWater =
                          heap'[components[j]].outletWater]_vars

(* An Aeration Tank behind another unit has been stepped twice: the outlet *)
(* it held differs from its inlet in a parameter it does not write, and    *)
(* its new outlet has the inlet's value there.                             *)
DeterministicWitness ==
    /\ Size = 4
    /\ nTicks >= 2
    /\ At(3).cls = "AerationTank"
    /\ At(3).inletWater["TSS"] # Water["TSS"]
    /\ At(3).outletWater["TSS"] = At(3).inletWater["TSS"]
    /\ At(3).outletWater # Water

(* The physical-separation classes (clarifiers, filters, oil separator,    *)
(* membrane units) and the parameters each removes by a constant fraction. *)
SeparationTargets(cls) ==
    CASE cls = "PrimaryClarifier" -> {"TSS", "OIL", "TURBIDITY"}
      [] cls = "PrimarySedimentationTank" -> {"TSS", "BOD", "TURBIDITY", "PATHOGENS"}
      [] cls = "SecondaryClarifier" -> {"TSS", "TURBIDITY"}
      [] cls = "Filtration" -> {"TSS", "TURBIDITY"}
      [] cls = "OilSeparator" -> {"OIL", "TURBIDITY"}
      [] cls = "MembraneFiltration" -> {"COD", "TSS", "PATHOGENS"}
      [] cls = "MembraneFiltrationUnit" -> {"PATHOGENS", "TSS"}
      [] OTHER -> {}

(* C18, as claimed. A step gives a physical-separation unit, for every     *)
(* parameter p it targets, the outlet value inlet[p] * (1 - e) when its    *)
(* removalEfficiencies holds an efficiency e set for p (an entry other     *)
(* than the 0 the panel inserts), and the value of the built-in constant   *)
(* when it holds none.                                                     *)
EfficiencyOverride ==
    [][Step =>
        \A i \in 2..(Size - 1) : \A p \in SeparationTargets(At(i).cls) :
            LET e == At(i).removalEfficiencies
            IN  IF p \in DOMAIN e /\ e[p] # 0
                THEN heap'[components[i]].outletWater[p] =
                         Mul(At(i).inletWater[p], 100000 - e[p])
                ELSE heap'[components[i]].outletWater[p] =
                         simulate([At(i) EXCEPT !.removalEfficiencies =
                                      [q \in {} |-> 0]])[p]]_vars

(* The names of the default example's chain. *)
DefaultNames ==
    <<"Inlet", "Primary Clarifier", "Primary Sedimentation Tank", "Aeration Tank",
      "Active Sludge Process", "Nitrification Tank", "Secondary Clarifier",
      "Chlorine Disinfection Unit", "Filtration", "Outlet">>

(* C19. Load Default Example, from any chain, leaves the chain Source, the *)
(* eight units of the default example in their order, Sink: ten            *)
(* components, the Source and the Sink those that were, every unit a new   *)
(* component with its constructor's values and none of the units of the    *)
(* chain before left; taken a second time it leaves the same names.        *)
DefaultPreset ==
    [][LoadDefaultExample =>
        /\ Names(heap', components') = DefaultNames
        /\ Len(components') = 10
        /\ components'[1] = inlet /\ components'[10] = outlet
        /\ heap'[inlet] = heap[inlet] /\ heap'[outlet] = heap[outlet]
        /\ DOMAIN heap' = {components'[i] : i \in 1..10}
        /\ Cardinality(DOMAIN heap') = 10
        /\ \A i \in 2..9 :
              heap'[components'[i]] =
                  NewComponent(heap'[components'[i]].cls, DefaultNames[i])
        /\ last.op = "Load Default Example" =>
              Names(heap', components') = Names(heap, components)]_vars

(* Load Default Example was taken on the default example, after steps. *)
DefaultPresetWitness ==
    /\ last.op = "Load Default Example"
    /\ last.names = DefaultNames
    /\ Names(heap, components) = DefaultNames
    /\ nTicks >= 1
    /\ At(2).outletWater = Water

(* C20. A step gives a Chlorine Disinfection Unit an outlet with the       *)
(* pathogens of its inlet times 0.00001, residual chlorine 0.7 whatever    *)
(* the inlet's was, the chlorides of its inlet times 1.46, and every other *)
(* parameter as in the inlet.                                              *)
ChlorineDisinfection ==
    [][Step =>
        \A i \in 2..(Size - 1) :
            At(i).cls = "ChlorineDisinfectionUnit" =>
                LET in == At(i).inletWater
                    out == heap'[components[i]].outletWater
                IN  /\ out["PATHOGENS"] = Mul(in["PATHOGENS"], 1)
                    /\ out["RESIDUAL_CHLORINE"] = 7
                    /\ out["CHLORIDES"] = Mul(in["CHLORIDES"], 146000)
                    /\ \A p \in WaterParameter \
                              {"PATHOGENS", "RESIDUAL_CHLORINE", "CHLORIDES"} :
                          out[p] = in[p]]_vars

(* A Chlorine Disinfection Unit fed 1e6 pathogens and a residual chlorine  *)
(* other than 0.7 has been stepped.                                        *)
ChlorineWitness ==
    /\ At(2).cls = "ChlorineDisinfectionUnit"
    /\ At(2).inletWater["PATHOGENS"] = 10000000
    /\ At(2).inletWater["RESIDUAL_CHLORINE"] = 5000
    /\ At(2).outletWater["PATHOGENS"] = 100
    /\ At(2).outletWater["RESIDUAL_CHLORINE"] = 7
    /\ At(2).outletWater["CHLORIDES"] = 1460
    /\ nTicks >= 2

(* C21. A step of the chain Source, Aeration Tank, Sink, in which the tank *)
(* has HRT 10 h and the configured temperature 20 and holds the default    *)
(* sample (BOD 300, 20 degrees) as its inlet, leaves the tank an outlet    *)
(* BOD of 300 * exp(-0.2 * 10), which is 40.6 to the tenth.                *)
AerationScenario ==
    [][(/\ Step
        /\ Size = 3
        /\ At(2).cls = "AerationTank"
        /\ At(2).HRT = 100
        /\ At(2).temperature = 200
        /\ At(2).inletWater = Water) =>
            heap'[components[2]].outletWater["BOD"] = 406]_vars

(* The tank of that chain, as constructed, has been stepped once with the  *)
(* default sample as its inlet.                                            *)
AerationWitness ==
    /\ Size = 3
    /\ nTicks = 1
    /\ At(2).cls = "AerationTank"
    /\ At(2).HRT = 100
    /\ Source.outletWater = Water
    /\ At(2).inletWater = Water
    /\ At(2).outletWater["BOD"] = 406
    /\ Sink.inletWater["BOD"] = 406

(* C22, as claimed. A step gives every unit of the kinetic family the      *)
(* outlet DO max(0, inlet DO - 1.5 * (BOD removed + COD removed + 4.57 *   *)
(* NH4 removed)), where what is removed of a parameter is the inlet value  *)
(* less the outlet value.                                                  *)
OxygenDemandUniform ==
    [][Step =>
        \A i \in 2..(Size - 1) :
            At(i).cls \in KineticFamily =>
                LET in == At(i).inletWater
                    out == heap'[components[i]].outletWater
                    BOD_removed == in["BOD"] - out["BOD"]
                    COD_removed == in["COD"] - out["COD"]
                    NH4_removed == in["NH4"] - out["NH4"]
                    demand == Mul(BOD_removed + COD_removed + Mul(NH4_removed, 457000),
                                  150000)
                IN  out["DO"] = IF in["DO"] - demand < 0 THEN 0 ELSE in["DO"] - demand]_vars

(* C23. A step gives every unit of the kinetic family an outlet whose      *)
(* nitrate exceeds the inlet's by 0.9 times the ammonium removed (the      *)
(* inlet's ammonium less the outlet's), for every inlet and every HRT.     *)
NitrogenConversion ==
    [][Step =>
        \A i \in 2..(Size - 1) :
            At(i).cls \in KineticFamily =>
                LET in == At(i).inletWater
                    out == heap'[components[i]].outletWater
                IN  out["NO3"] - in["NO3"] = Mul(in["NH4"] - out["NH4"], 90000)]_vars

(* A Nitrification Tank with HRT 10 h fed 500 of ammonium has been         *)
(* stepped: it has removed 316.1 of it and its nitrate has risen by 284.5. *)
NitrogenWitness ==
    /\ At(2).cls = "NitrificationTank"
    /\ At(2).HRT = 100
    /\ nTicks >= 2
    /\ At(2).inletWater["NH4"] = 5000
    /\ At(2).inletWater["TEMP"] = 200
    /\ At(2).outletWater["NH4"] < At(2).inletWater["NH4"]
    /\ At(2).outletWater["NH4"] > 0
    /\ At(2).outletWater["NO3"] - At(2).inletWater["NO3"] =
           Mul(5000 - At(2).outletWater["NH4"], 90000)
    /\ At(2).outletWater["NO3"] > At(2).inletWater["NO3"]

(* The rate constant k_nh4 of each class of the kinetic family, in 1/1000. *)
k_nh4(cls) ==
    CASE cls \in {"AerationTank", "ActiveSludgeProcess", "NitrificationTank"} -> 100
      [] cls \in {"Biofilter", "AnaerobicAerobicFilter"} -> 50
      [] cls = "MBR" -> 30

(* C24, as claimed. A step gives every unit of the kinetic family the      *)
(* outlet ammonium inlet * exp(-k_nh4 * HRT * tempFactor) with tempFactor  *)
(* = 1.035^(temperature - 20) taken from the unit's configured             *)
(* temperature: a unit configured at 20 degrees removes the fraction       *)
(* 1 - exp(-k_nh4 * HRT) whatever the temperature of its inlet sample.     *)
TemperatureCorrection ==
    [][Step =>
        \A i \in 2..(Size - 1) :
            At(i).cls \in KineticFamily =>
                LET in == At(i).inletWater
                    tempFactor == Pow1035(At(i).temperature)
                    fraction == KineticFraction(k_nh4(At(i).cls), At(i).HRT, tempFactor)
                IN  heap'[components[i]].outletWater["NH4"] =
                        in["NH4"] - Mul(in["NH4"], fraction)]_vars

(* C25, as claimed. In every state the connections are none or exactly the *)
(* consecutive pairs of the chain, in order, so that every connection      *)
(* joins two live components that are neighbours; and Add, Remove and Load *)
(* Default Example each leave the full list of consecutive pairs.          *)
AdjacencyInvariant ==
    /\ [](\/ connections = <<>>
          \/ connections = MakeConnections(components))
    /\ [][(Add \/ LoadDefaultExample \/ \E i \in 1..Size : Remove(i)) =>
              connections' = MakeConnections(components')]_vars

(* The sample w taken through the transfer functions of the units at the   *)
(* positions from..to of the chain, in order, each with its configuration. *)
RECURSIVE Through(_, _, _)
Through(w, from, to) ==
    IF from > to THEN w
    ELSE Through(simulate(Fed(components[from], w)), from + 1, to)

(* C26. In a run of consecutive steps from a chain of n new units, with    *)
(* the Source's outlet S, the configurations and the chain left alone:     *)
(* after n + 1 steps and after every later step the Sink's inlet is        *)
(* f_n(...f_1(S)...); after k < n + 1 steps it is still the baseline       *)
(* sample taken through the last k units, independent of S.                *)
Settling ==
    /\ nTicks >= Size - 1 =>
          Sink.inletWater = Through(Source.outletWater, 2, Size - 1)
    /\ nTicks < Size - 1 =>
          Sink.inletWater = Through(Water, Size - nTicks, Size - 1)

(* The default example has run for more than n + 1 steps and the Sink's   *)
(* inlet holds the effluent of the Source's outlet, which differs from the *)
(* effluent of the baseline sample that it held after n steps.             *)
SettlingWitness ==
    /\ Size = 10
    /\ nTicks > Size - 1
    /\ Source.outletWater # Water
    /\ Sink.inletWater = Through(Source.outletWater, 2, Size - 1)
    /\ Sink.inletWater # Through(Water, 2, Size - 1)

(* C27, as claimed. For every name of the Type combo that is selected, Add *)
(* creates a unit of the class of that name and the chain grows by exactly *)
(* one.                                                                    *)
EveryTypeCanBeAdded ==
    [][Add =>
        /\ \E k \in 1..Len(componentTypes) : componentTypes[k] = newComponentType
        /\ Len(components') = Len(components) + 1
        /\ Cardinality(DOMAIN heap') = Cardinality(DOMAIN heap) + 1
        /\ \A a \in DOMAIN heap' \ DOMAIN heap : heap'[a].name = newComponentType]_vars

(* C28. An Add that inserts a unit leaves it with the baseline sample as   *)
(* its inlet and as its outlet, whatever its predecessor's outlet holds;   *)
(* and a step that finds the last unit so (as the first step after the     *)
(* insert does, no handler but the step writing a unit's samples) gives it *)
(* the outlet of its transfer function on the baseline sample, hands that  *)
(* outlet to the Sink's inlet, whatever the Source's outlet holds, and     *)
(* gives the unit's inlet its predecessor's outlet for the step after.     *)
NewUnitStartsAtBaseline ==
    /\ [][(Add /\ Len(components') > Len(components)) =>
              LET new == heap'[components'[Len(components') - 1]]
              IN  /\ new.inletWater = Water
                  /\ new.outletWater = Water]_vars
    /\ [][(/\ Step
           /\ last.op = "Add"
           /\ Size = Len(last.names) + 1
           /\ At(Size - 1).inletWater = Water
           /\ At(Size - 1).outletWater = Water) =>
              LET new == components[Size - 1]
              IN  /\ heap'[new].outletWater = simulate(Fed(new, Water))
                  /\ heap'[outlet].inletWater = heap'[new].outletWater
                  /\ heap'[new].inletWater = heap'[components[Size - 2]].outletWater]_vars

(* An Aeration Tank was added after the Source's BOD had been edited to    *)
(* 100 and one step has run: the tank's outlet and the Sink's inlet hold   *)
(* the BOD 40.6 of the baseline sample, the tank's inlet the BOD 100.      *)
NewUnitWitness ==
    /\ last.op = "Add"
    /\ Size = 3
    /\ nTicks = 1
    /\ At(2).cls = "AerationTank"
    /\ At(2).HRT = 100
    /\ Source.outletWater["BOD"] = 1000
    /\ At(2).outletWater["BOD"] = 406
    /\ Sink.inletWater["BOD"] = 406
    /\ At(2).inletWater["BOD"] = 1000

(* C29. While the simulation is stopped no step of the program is a        *)
(* simulation step (the steps that count a tick), none appends to or drops *)
(* from a history series, and none changes the inlet of a component it     *)
(* keeps or the outlet of a component it keeps other than the Source:      *)
(* edits of the Source, of a unit's configuration and of the chain change  *)
(* no sample but the Source's outlet, and a kept component's inlet changes *)
(* only in a simulation step taken while the simulation runs.              *)
StoppedFreezes ==
    [][/\ nTicks' # nTicks => (isSimulating /\ Step)
       /\ ~isSimulating =>
             /\ nTicks' = nTicks
             /\ parameterHistories' = parameterHistories
             /\ \A a \in Kept :
                   /\ heap'[a].inletWater = heap[a].inletWater
                   /\ a # inlet => heap'[a].outletWater = heap[a].outletWater
       /\ \A a \in Kept :
             heap'[a].inletWater # heap[a].inletWater => nTicks' # nTicks]_vars

(* The simulation has run and is stopped, and the Source's BOD has been    *)
(* edited since the last step: the unit's inlet still holds the BOD the    *)
(* last step gave it.                                                      *)
StoppedWitness ==
    /\ ~isSimulating
    /\ nTicks >= 1
    /\ Size = 3
    /\ Source.outletWater["BOD"] = 1000
    /\ At(2).inletWater["BOD"] = 3000
    /\ Sink.inletWater = At(2).outletWater
    /\ Len(Series(parameterHistories, "BOD")) = 3 * nTicks

(* C30. Reset leaves the Source's outlet, the Sink's inlet and outlet,     *)
(* every history series and the running/stopped flag as they were, so that *)
(* the Sink's inlet still holds what the discarded chain delivered; and a  *)
(* step of the chain Source, Sink gives the Sink's inlet the Source's      *)
(* outlet.                                                                 *)
ResetChangesOnlyTopology ==
    /\ [][Reset =>
              /\ heap'[inlet].outletWater = heap[inlet].outletWater
              /\ heap'[outlet].inletWater = heap[outlet].inletWater
              /\ heap'[outlet].outletWater = heap[outlet].outletWater
              /\ parameterHistories' = parameterHistories
              /\ isSimulating' = isSimulating]_vars
    /\ [][(Step /\ Size = 2) =>
              heap'[outlet].inletWater = heap[inlet].outletWater]_vars

(* Reset was taken while the simulation ran a chain with an Aeration Tank: *)
(* the Sink's inlet holds the tank's effluent (BOD 40.6), not the Source's *)
(* outlet (BOD 300), and the histories hold the values recorded so far.    *)
ResetFrameWitness ==
    /\ last.op = "Reset"
    /\ Size = 2
    /\ isSimulating
    /\ Source.outletWater["BOD"] = 3000
    /\ Sink.inletWater["BOD"] = 406
    /\ Len(Series(parameterHistories, "BOD")) >= 3

====
